---- MODULE Spec2Model ----
(***************************************************************************)
(* Model of create_workflow_template.py: the parameter-cell extractor      *)
(* (find_parameters_cell), the workflow template synthesizer               *)
(* (create_workflow_template) and the driver (main).                       *)
(*                                                                         *)
(* Text is modelled as a sequence of one-character strings, so that        *)
(* strip, split and join are computed character by character as Python    *)
(* and the shell compute them.                                             *)
(***************************************************************************)
EXTENDS Integers, Sequences, FiniteSets, TLC

(***************************************************************************)
(* Bounds of the model.                                                    *)
(***************************************************************************)
MaxCells == 3
MaxLines == 3
MaxSrcLen == 5
MaxValLen == 5

(***************************************************************************)
(* Characters.                                                             *)
(***************************************************************************)
NL == "\n"
TAB == "\t"
\* What str.strip() with no argument removes (the members the model's
\* alphabets contain).
Whitespace == {" ", TAB, NL}
\* The argument of default_value.strip("'\" ").
CleanChars == {"'", "\"", " "}
\* The shell's default IFS: space, tab, newline.
IFS == {" ", TAB, NL}

(***************************************************************************)
(* Python string operations.                                               *)
(***************************************************************************)
\* s.lstrip(chars)
RECURSIVE lstrip(_, _)
lstrip(s, chars) ==
    IF s # <<>> /\ Head(s) \in chars THEN lstrip(Tail(s), chars) ELSE s

\* s.rstrip(chars)
RECURSIVE rstrip(_, _)
rstrip(s, chars) ==
    IF s # <<>> /\ s[Len(s)] \in chars
    THEN rstrip(SubSeq(s, 1, Len(s) - 1), chars)
    ELSE s

\* s.strip(chars)
strip_chars(s, chars) == rstrip(lstrip(s, chars), chars)

\* s.strip()
strip(s) == strip_chars(s, Whitespace)

\* s.startswith(c) for a one-character c
startswith(s, c) == s # <<>> /\ Head(s) = c

\* c in s
contains(s, c) == \E i \in 1..Len(s) : s[i] = c

\* s.split(sep) for a one-character sep: always at least one field
RECURSIVE split(_, _)
split(s, sep) ==
    IF ~contains(s, sep) THEN <<s>>
    ELSE LET i == CHOOSE k \in 1..Len(s) :
                     s[k] = sep /\ \A j \in 1..(k - 1) : s[j] # sep
         IN <<SubSeq(s, 1, i - 1)>> \o split(SubSeq(s, i + 1, Len(s)), sep)

\* Faulty variant of split1: s.split(sep), which splits at every sep.
split1_every(s, sep) == split(s, sep)

\* s.split(sep, 1): at most one split, at the first sep
split1(s, sep) ==
    IF ~contains(s, sep) THEN <<s>>
    ELSE LET i == CHOOSE k \in 1..Len(s) :
                     s[k] = sep /\ \A j \in 1..(k - 1) : s[j] # sep
         IN <<SubSeq(s, 1, i - 1), SubSeq(s, i + 1, Len(s))>>

\* sep.join(words)
RECURSIVE join(_, _)
join(words, sep) ==
    IF words = <<>> THEN <<>>
    ELSE IF Len(words) = 1 THEN words[1]
    ELSE words[1] \o <<sep>> \o join(Tail(words), sep)

(***************************************************************************)
(* A Python dict (insertion-ordered) as a sequence of [name, value]        *)
(* records with pairwise distinct names.                                   *)
(***************************************************************************)
keys(d) == [i \in 1..Len(d) |-> d[i].name]

\* Faulty variant of dict_set: an existing key is removed and appended, so it
\* takes the position of its latest assignment.
dict_set_move_to_end(d, k, v) ==
    Append(SelectSeq(d, LAMBDA e : e.name # k), [name |-> k, value |-> v])

\* d[k] = v: a new key is appended, an existing key keeps its position
dict_set(d, k, v) ==
    IF \E i \in 1..Len(d) : d[i].name = k
    THEN [i \in 1..Len(d) |->
            IF d[i].name = k THEN [name |-> k, value |-> v] ELSE d[i]]
    ELSE Append(d, [name |-> k, value |-> v])

(***************************************************************************)
(* find_parameters_cell                                                    *)
(***************************************************************************)
\* Faulty variant of parse_line: var_value = parts[1], not stripped.
parse_line_raw_value(parameters, raw_line) ==
    LET line == strip(raw_line) IN
    IF line = <<>> \/ startswith(line, "#") THEN parameters
    ELSE IF contains(line, "=") /\ ~startswith(line, "=")
    THEN LET parts == split1(line, "=") IN
         IF Len(parts) = 2
         THEN dict_set(parameters, strip(parts[1]), parts[2])
         ELSE parameters
    ELSE parameters

\* Faulty variant of parse_line: the test `not line.startswith('=')` is
\* missing.
parse_line_leading_eq(parameters, raw_line) ==
    LET line == strip(raw_line) IN
    IF line = <<>> \/ startswith(line, "#") THEN parameters
    ELSE IF contains(line, "=")
    THEN LET parts == split1(line, "=") IN
         IF Len(parts) = 2
         THEN dict_set(parameters, strip(parts[1]), strip(parts[2]))
         ELSE parameters
    ELSE parameters

\* The body of the loop over the lines of the parameters cell.
parse_line(parameters, raw_line) ==
    LET line == strip(raw_line) IN
    IF line = <<>> \/ startswith(line, "#") THEN parameters
    ELSE IF contains(line, "=") /\ ~startswith(line, "=")
    THEN LET parts == split1(line, "=") IN
         IF Len(parts) = 2
         THEN dict_set(parameters, strip(parts[1]), strip(parts[2]))
         ELSE parameters
    ELSE parameters

\* for line in cell.source.split('\n'): ...
RECURSIVE parse_lines(_, _)
parse_lines(parameters, lines) ==
    IF lines = <<>> THEN parameters
    ELSE parse_lines(parse_line(parameters, Head(lines)), Tail(lines))

parse_cell(cell) == parse_lines(<<>>, split(cell.source, NL))

\* Faulty variant of is_parameters_cell: the cell type is not looked at.
is_parameters_cell_any_type(cell) == "parameters" \in cell.tags

\* The test that selects the parameters cell.
is_parameters_cell(cell) ==
    cell.cell_type = "code" /\ "parameters" \in cell.tags

\* Faulty variant of find_parameters_cell: no break, every tagged code cell
\* adds its entries.
RECURSIVE scan_all_cells(_, _)
scan_all_cells(parameters, cells) ==
    IF cells = <<>> THEN parameters
    ELSE IF is_parameters_cell(Head(cells))
    THEN scan_all_cells(
             parse_lines(parameters, split(Head(cells).source, NL)), Tail(cells))
    ELSE scan_all_cells(parameters, Tail(cells))

find_parameters_cell_no_break(cells) == scan_all_cells(<<>>, cells)

\* for cell in nb.cells: ... break
RECURSIVE find_parameters_cell(_)
find_parameters_cell(cells) ==
    IF cells = <<>> THEN <<>>
    ELSE IF is_parameters_cell(Head(cells)) THEN parse_cell(Head(cells))
    ELSE find_parameters_cell(Tail(cells))

(***************************************************************************)
(* Configuration values (environment defaults).                            *)
(***************************************************************************)
GIT_REPO_URL == "https://github.com/lucianocastro-oc/hello-notebook-poc.git"
GIT_BRANCH == "main"
NOTEBOOK_PATH == "example_notebook.ipynb"
RUNNER_IMAGE == "europe-west1-docker.pkg.dev/beeapp-terraform-deployment/app/notebook-runner:0.3.10"
TEMPLATE_NAME == "lucianocastro-notebook-workflow-template"
NAMESPACE == "argo"

(***************************************************************************)
(* create_workflow_template                                                *)
(***************************************************************************)
\* Faulty variant of clean_default: default_value.strip("'\""), spaces kept.
clean_default_quotes_only(default_value) ==
    strip_chars(default_value, {"'", "\""})

\* clean_default = default_value.strip("'\" ")
clean_default(default_value) == strip_chars(default_value, CleanChars)

\* The loop that builds workflow_parameters: one Parameter per dict item.
workflow_parameters(parameters) ==
    [i \in 1..Len(parameters) |->
        [name |-> parameters[i].name,
         default |-> clean_default(parameters[i].value)]]

\* inputs=[GitArtifact(...), *workflow_parameters]
container_inputs(git_repo_url, git_branch, wps) ==
    <<[kind |-> "GitArtifact", name |-> <<"r", "e", "p", "o">>, path |-> "/mnt/repo",
       repo |-> git_repo_url, revision |-> git_branch]>>
    \o [i \in 1..Len(wps) |->
          [kind |-> "Parameter", name |-> wps[i].name, path |-> "",
           repo |-> "", revision |-> ""]]

\* outputs=[ArtifactoryArtifact(...)]
container_outputs ==
    <<[kind |-> "ArtifactoryArtifact", name |-> "executed-notebook",
       path |-> "/mnt/outputs/output_notebook.ipynb"]>>

\* The word list text of `for param_name in {' '.join(parameters.keys())}`.
for_list(parameters) == join(keys(parameters), " ")

\* Faulty variant of papermill_command: the notebook path is not put under
\* the repository mount.
papermill_command_relative(notebook_path) ==
    [runner |-> "papermill",
     input |-> <<"", notebook_path>>,
     output |-> "/mnt/outputs/output_notebook.ipynb",
     flags |-> "$papermill_args"]

\* The papermill invocation at the end of the script: the runner, the
\* notebook under the repository mount, the output path, $papermill_args.
papermill_command(notebook_path) ==
    [runner |-> "papermill",
     input |-> <<"/mnt/repo/", notebook_path>>,
     output |-> "/mnt/outputs/output_notebook.ipynb",
     flags |-> "$papermill_args"]

\* args=[f"""..."""]: the parts of the script text that depend on the call.
script_args(notebook_path, parameters) ==
    [for_list |-> for_list(parameters),
     papermill |-> papermill_command(notebook_path)]

create_workflow_template(template_name, git_repo_url, git_branch, notebook_path, parameters, runner_image, namespace) ==
    LET wps == workflow_parameters(parameters) IN
    [name |-> template_name,
     namespace |-> namespace,
     entrypoint |-> "run-notebook",
     arguments |-> wps,
     container |->
        [name |-> "run-notebook",
         image |-> runner_image,
         inputs |-> container_inputs(git_repo_url, git_branch, wps),
         outputs |-> container_outputs,
         command |-> <<"/bin/sh", "-c">>,
         args |-> script_args(notebook_path, parameters)]]

(***************************************************************************)
(* The generated script, as /bin/sh runs it.                               *)
(***************************************************************************)
\* Field splitting of an unquoted word list on IFS: empty fields vanish.
RECURSIVE shell_words(_)
shell_words(text) ==
    LET t == lstrip(text, IFS) IN
    IF t = <<>> THEN <<>>
    ELSE LET n == CHOOSE k \in 1..Len(t) :
                     /\ \A j \in 1..k : t[j] \notin IFS
                     /\ (k = Len(t) \/ t[k + 1] \in IFS)
         IN <<SubSeq(t, 1, n)>> \o shell_words(SubSeq(t, n + 1, Len(t)))

\* The for loop: one `-p $param_name "$param_value"` per word of the list.
papermill_args(args) ==
    LET words == shell_words(args.for_list) IN
    [i \in 1..Len(words) |-> [flag |-> "-p", name |-> words[i]]]

(***************************************************************************)
(* main: the state of one run.                                             *)
(***************************************************************************)
VARIABLES
    pc,          \* the statement main is at
    nb,          \* the notebook of the repository: [cells |-> <<cell, ...>>]
    parameters,  \* the dict find_parameters_cell returned
    wt,          \* <<>> before create_workflow_template returned, then <<wt>>
    temp_dir,    \* whether the temporary clone directory exists
    raised,      \* the exception propagating out of the try block, or "none"
    registered,  \* whether workflow_template.create() succeeded
    log          \* the steps main has gone through, in order

vars == <<pc, nb, parameters, wt, temp_dir, raised, registered, log>>

(***************************************************************************)
(* Inputs.                                                                 *)
(***************************************************************************)
Strings(alphabet, n) == UNION {[1..k -> alphabet] : k \in 0..n}

\* Lines a parameters cell is built from in CellSpec.
LineSet ==
    { <<>>,
      <<" ", " ">>,
      <<"#", " ", "a", "=", "9">>,
      <<"n", "=", "1">>,
      <<" ", "n", " ", "=", " ", "2", " ">>,
      <<"x", " ", "=", " ", "a", "=", "b">>,
      <<"t", "=", "5", " ", " ", "#", "c">>,
      <<"s", " ", "=", " ", "\"", "h", "\"">>,
      <<"=", "n">>,
      <<"n", "o">>,
      <<"a", " ", "b", " ", "=", "3">> }

\* Cell sources of the notebooks of Spec.
SourceSet ==
    { <<"#", "c">>,
      <<"a", "=", "1">>,
      <<"b", "=", "2", NL, "a", "=", "3">> }

TagSets ==
    { {}, {"parameters"}, {"injected-parameters", "other"} }

CellTypes == {"code", "markdown"}

CellSet == [cell_type : CellTypes, tags : TagSets, source : SourceSet]

\* A notebook whose only cell is a code cell tagged "parameters".
parameters_notebook(source) ==
    [cells |-> <<[cell_type |-> "code", tags |-> {"parameters"},
                  source |-> source]>>]

TextAlphabet == {"a", "b", " ", TAB, "=", "#", NL}
ValueAlphabet == {"a", "b", " ", TAB, "\"", "'"}

\* What every run starts from, but for the notebook.
InitRun ==
    /\ pc = "mkdtemp"
    /\ parameters = <<>>
    /\ wt = <<>>
    /\ temp_dir = FALSE
    /\ raised = "none"
    /\ registered = FALSE
    /\ log = <<>>

\* main has cloned the repository and found the notebook, and is about to
\* call find_parameters_cell.
InitAtExtract ==
    /\ pc = "find_parameters_cell"
    /\ parameters = <<>>
    /\ wt = <<>>
    /\ temp_dir = TRUE
    /\ raised = "none"
    /\ registered = FALSE
    /\ log = <<"mkdtemp", "clone_repository", "exists">>

Init ==
    /\ nb \in {[cells |-> c] : c \in UNION {[1..k -> CellSet] : k \in 0..MaxCells}}
    /\ InitRun

InitCell ==
    /\ nb \in {parameters_notebook(join(ls, NL)) :
                  ls \in UNION {[1..k -> LineSet] : k \in 0..MaxLines}}
    /\ InitAtExtract

InitText ==
    /\ nb \in {parameters_notebook(s) : s \in Strings(TextAlphabet, MaxSrcLen)}
    /\ InitAtExtract

InitValue ==
    /\ nb \in {parameters_notebook(<<"x", "=">> \o v) :
                  v \in Strings(ValueAlphabet, MaxValLen)}
    /\ InitAtExtract

(***************************************************************************)
(* main: one action per statement and outcome.                             *)
(***************************************************************************)
\* Faulty variant of Raise: the registration failure ends the process at
\* once (os._exit), without unwinding through the finally clause.
Raise_hard_exit(exc) ==
    /\ raised' = exc
    /\ pc' = IF exc = "SystemExit" THEN "done" ELSE "except"

\* An exception raised inside the try block.
Raise(exc) ==
    /\ raised' = exc
    /\ pc' = IF exc = "SystemExit" THEN "finally" ELSE "except"

\* temp_dir = tempfile.mkdtemp(...)
Mkdtemp ==
    /\ pc = "mkdtemp"
    /\ temp_dir' = TRUE
    /\ log' = Append(log, "mkdtemp")
    /\ pc' = "clone_repository"
    /\ UNCHANGED <<nb, parameters, wt, raised, registered>>

\* clone_repository returns
CloneOk ==
    /\ pc = "clone_repository"
    /\ log' = Append(log, "clone_repository")
    /\ pc' = "exists"
    /\ UNCHANGED <<nb, parameters, wt, temp_dir, raised, registered>>

\* Repo.clone_from raises
CloneFails ==
    /\ pc = "clone_repository"
    /\ Raise("GitCommandError")
    /\ UNCHANGED <<nb, parameters, wt, temp_dir, registered, log>>

\* os.path.exists(notebook_full_path) is true
NotebookFound ==
    /\ pc = "exists"
    /\ log' = Append(log, "exists")
    /\ pc' = "find_parameters_cell"
    /\ UNCHANGED <<nb, parameters, wt, temp_dir, raised, registered>>

\* raise FileNotFoundError
NotebookMissing ==
    /\ pc = "exists"
    /\ Raise("FileNotFoundError")
    /\ UNCHANGED <<nb, parameters, wt, temp_dir, registered, log>>

\* parameters = find_parameters_cell(notebook_full_path)
FindParameters ==
    /\ pc = "find_parameters_cell"
    /\ parameters' = find_parameters_cell(nb.cells)
    /\ log' = Append(log, "find_parameters_cell")
    /\ pc' = "create_workflow_template"
    /\ UNCHANGED <<nb, wt, temp_dir, raised, registered>>

\* nbformat.read raises: the file is not a notebook
ReadFails ==
    /\ pc = "find_parameters_cell"
    /\ Raise("NotebookReadError")
    /\ UNCHANGED <<nb, parameters, wt, temp_dir, registered, log>>

\* workflow_template = create_workflow_template(...)
CreateTemplate ==
    /\ pc = "create_workflow_template"
    /\ wt' = <<create_workflow_template(TEMPLATE_NAME, GIT_REPO_URL, GIT_BRANCH,
                 NOTEBOOK_PATH, parameters, RUNNER_IMAGE, NAMESPACE)>>
    /\ log' = Append(log, "create_workflow_template")
    /\ pc' = "to_yaml"
    /\ UNCHANGED <<nb, parameters, temp_dir, raised, registered>>

\* print(workflow_template.to_yaml())
ToYaml ==
    /\ pc = "to_yaml"
    /\ log' = Append(log, "to_yaml")
    /\ pc' = "create"
    /\ UNCHANGED <<nb, parameters, wt, temp_dir, raised, registered>>

\* to_yaml raises
ToYamlFails ==
    /\ pc = "to_yaml"
    /\ Raise("YamlError")
    /\ UNCHANGED <<nb, parameters, wt, temp_dir, registered, log>>

\* workflow_template.create() returns
RegisterOk ==
    /\ pc = "create"
    /\ registered' = TRUE
    /\ log' = Append(log, "create")
    /\ pc' = "finally"
    /\ UNCHANGED <<nb, parameters, wt, temp_dir, raised>>

\* workflow_template.create() raises: the inner handler calls sys.exit(1)
RegisterFails ==
    /\ pc = "create"
    /\ log' = Append(log, "create")
    /\ Raise("SystemExit")
    /\ UNCHANGED <<nb, parameters, wt, temp_dir, registered>>

\* except Exception as e: print(...); raise
Except ==
    /\ pc = "except"
    /\ log' = Append(log, "except")
    /\ pc' = "finally"
    /\ UNCHANGED <<nb, parameters, wt, temp_dir, raised, registered>>

\* finally: if os.path.exists(temp_dir): shutil.rmtree(temp_dir)
Finally ==
    /\ pc = "finally"
    /\ temp_dir' = IF temp_dir THEN FALSE ELSE temp_dir
    /\ log' = Append(log, "finally")
    /\ pc' = "done"
    /\ UNCHANGED <<nb, parameters, wt, raised, registered>>

\* The exit status of the process once main is over: sys.exit(1), or an
\* exception main re-raised.
exit_status == IF raised = "none" THEN 0 ELSE 1

Next ==
    \/ Mkdtemp
    \/ CloneOk
    \/ CloneFails
    \/ NotebookFound
    \/ NotebookMissing
    \/ FindParameters
    \/ ReadFails
    \/ CreateTemplate
    \/ ToYaml
    \/ ToYamlFails
    \/ RegisterOk
    \/ RegisterFails
    \/ Except
    \/ Finally

\* Extraction and synthesis alone.
NextCore ==
    \/ FindParameters
    \/ CreateTemplate

Spec == Init /\ [][Next]_vars
CellSpec == InitCell /\ [][NextCore]_vars
TextSpec == InitText /\ [][NextCore]_vars
ValueSpec == InitValue /\ [][NextCore]_vars

(***************************************************************************)
(* Notions the properties are stated with.  They are written from the      *)
(* meaning of the words (positions in the text), not from the operators    *)
(* above.                                                                  *)
(***************************************************************************)
Min(S) == CHOOSE x \in S : \A y \in S : x <= y
Max(S) == CHOOSE x \in S : \A y \in S : y <= x

\* s without its longest prefix and its longest suffix of characters of S.
Without(s, S) ==
    LET kept == {i \in 1..Len(s) : s[i] \notin S} IN
    IF kept = {} THEN <<>> ELSE SubSeq(s, Min(kept), Max(kept))

Trimmed(s) == Without(s, Whitespace)

\* The lines of a text: the stretches between its line feeds.
NLPositions(s) == {i \in 1..Len(s) : s[i] = NL}
LineCount(s) == Cardinality(NLPositions(s)) + 1
NthNL(s, n) ==
    CHOOSE p \in NLPositions(s) :
        Cardinality({q \in NLPositions(s) : q < p}) = n - 1
LineAt(s, n) ==
    LET first == IF n = 1 THEN 1 ELSE NthNL(s, n - 1) + 1
        last == IF n = LineCount(s) THEN Len(s) ELSE NthNL(s, n) - 1
    IN [i \in 1..(last - first + 1) |-> s[first + i - 1]]

\* The text left and right of the first "=" of a line that has one.
HasEq(l) == \E i \in 1..Len(l) : l[i] = "="
FirstEq(l) == Min({i \in 1..Len(l) : l[i] = "="})
NameOf(l) == Trimmed([i \in 1..(FirstEq(l) - 1) |-> l[i]])
RawDefaultOf(l) == Trimmed([i \in 1..(Len(l) - FirstEq(l)) |-> l[FirstEq(l) + i]])

\* A qualifying assignment line.
Qualifies(l) ==
    LET t == Trimmed(l) IN
    /\ t # <<>>
    /\ t[1] # "#"
    /\ HasEq(t)
    /\ t[1] # "="

\* The code cells tagged "parameters", by position in the notebook.
TaggedCodeCells ==
    {i \in 1..Len(nb.cells) :
        nb.cells[i].cell_type = "code" /\ "parameters" \in nb.cells[i].tags}

\* The source text of the first of them (empty when there is none).
ParamSource ==
    IF TaggedCodeCells = {} THEN <<>> ELSE nb.cells[Min(TaggedCodeCells)].source

\* The positions of the qualifying lines of that source.
QualifyingLines ==
    IF TaggedCodeCells = {} THEN {}
    ELSE {n \in 1..LineCount(ParamSource) : Qualifies(LineAt(ParamSource, n))}

ParamLine(n) == LineAt(ParamSource, n)

\* find_parameters_cell has returned.
Extracted == \E i \in 1..Len(log) : log[i] = "find_parameters_cell"

\* create_workflow_template has returned.
Synthesized == wt # <<>>

Names(seq) == [i \in 1..Len(seq) |-> seq[i].name]

(***************************************************************************)
(* C1: the parameter names the generated script turns into `-p` flag       *)
(* pairs (the words of its for loop, as the shell splits them) are the     *)
(* declared-argument names: the same names, in the same order, each once.  *)
(* Violated: a name with interior whitespace is one declared argument and  *)
(* several loop words.                                                     *)
(***************************************************************************)
C1_FlagNamesAreDeclaredNames ==
    Synthesized =>
        Names(papermill_args(wt[1].container.args)) = Names(wt[1].arguments)

(***************************************************************************)
(* C2: when every line of the parameters cell is a well-formed             *)
(* `name = value` assignment and the names are pairwise distinct, the      *)
(* result has one entry per line, in line order; entry n has the trimmed   *)
(* text left of the "=" of line n as its name and the trimmed text right   *)
(* of it, quotes kept, as its raw default.                                 *)
(***************************************************************************)
AllWellFormedDistinct ==
    /\ TaggedCodeCells # {}
    /\ QualifyingLines = 1..LineCount(ParamSource)
    /\ \A m, n \in QualifyingLines :
          m # n => NameOf(ParamLine(m)) # NameOf(ParamLine(n))

C2_OneEntryPerLine ==
    (Extracted /\ AllWellFormedDistinct) =>
        /\ Len(parameters) = LineCount(ParamSource)
        /\ \A n \in 1..Len(parameters) :
              /\ parameters[n].name = NameOf(ParamLine(n))
              /\ parameters[n].value = RawDefaultOf(ParamLine(n))

\* Three lines, the last one quoted and padded: s = "h" is kept with its
\* quotes.
C2_Witness ==
    /\ Extracted
    /\ AllWellFormedDistinct
    /\ Len(parameters) = 3
    /\ parameters[3].value = <<"\"", "h", "\"">>
    /\ ParamLine(1) # Trimmed(ParamLine(1))

(***************************************************************************)
(* C3 as stated: one declared argument per entry, same name, same order,   *)
(* whose default is the raw default without its leading and trailing run   *)
(* of quote characters and whitespace.  Violated: strip("'\" ") removes    *)
(* the space character only, so a tab next to a quote stays in the         *)
(* default.                                                                *)
(***************************************************************************)
Quotes == {"'", "\""}

LinesNaming(name) == {n \in QualifyingLines : NameOf(ParamLine(n)) = name}

C4_LastValueFirstPosition ==
    Extracted =>
        /\ \A i, j \in 1..Len(parameters) :
              i # j => parameters[i].name # parameters[j].name
        /\ {parameters[i].name : i \in 1..Len(parameters)} =
              {NameOf(ParamLine(n)) : n \in QualifyingLines}
        /\ \A i \in 1..Len(parameters) :
              LET ls == LinesNaming(parameters[i].name) IN
              /\ ls # {}
              /\ parameters[i].value = RawDefaultOf(ParamLine(Max(ls)))
              /\ \A j \in 1..Len(parameters) :
                    i < j => Min(ls) < Min(LinesNaming(parameters[j].name))

\* A name assigned twice, with another name first assigned in between: the
\* repeated name stays first and has the later value.
C4_Witness ==
    /\ Extracted
    /\ Len(parameters) = 2
    /\ LET ls == LinesNaming(parameters[1].name) IN
       /\ Cardinality(ls) = 2
       /\ Min(ls) < Min(LinesNaming(parameters[2].name))
       /\ Min(LinesNaming(parameters[2].name)) < Max(ls)
       /\ RawDefaultOf(ParamLine(Min(ls))) # RawDefaultOf(ParamLine(Max(ls)))

(***************************************************************************)
(* C5: a qualifying line is split at its first "=" only: the raw default   *)
(* is everything after the first "=", trimmed, so later "=" and a          *)
(* trailing "# comment" stay in the value.                                 *)
(***************************************************************************)
C5_SplitAtFirstEq ==
    Extracted =>
        \A n \in QualifyingLines :
            (\A m \in LinesNaming(NameOf(ParamLine(n))) : m <= n) =>
                \E i \in 1..Len(parameters) :
                    /\ parameters[i].name = NameOf(ParamLine(n))
                    /\ parameters[i].value = RawDefaultOf(ParamLine(n))
                    /\ ~HasEq(parameters[i].name)

\* A value that holds a second "=" and a "#".
C5_Witness ==
    /\ Extracted
    /\ Len(parameters) = 1
    /\ HasEq(parameters[1].value)
    /\ \E i \in 1..Len(parameters[1].value) : parameters[1].value[i] = "#"

(***************************************************************************)
(* C6: when no code cell is tagged "parameters", or the parameters cell    *)
(* has no qualifying line, find_parameters_cell returns the empty set and  *)
(* main goes on to the synthesis with no exception raised.                 *)
(***************************************************************************)
C6_NothingToExtract ==
    (Extracted /\ QualifyingLines = {}) =>
        /\ parameters = <<>>
        /\ pc = "create_workflow_template" => raised = "none"

\* The tag sits on a markdown cell that holds an assignment, and on no
\* code cell.
C6_Witness ==
    /\ Extracted
    /\ TaggedCodeCells = {}
    /\ \E i \in 1..Len(nb.cells) :
          /\ nb.cells[i].cell_type = "markdown"
          /\ "parameters" \in nb.cells[i].tags
          /\ nb.cells[i].source = <<"a", "=", "1">>
    /\ pc = "create_workflow_template"

(***************************************************************************)
(* C7: with an empty parameter set create_workflow_template returns,       *)
(* nothing raised, a template with no declared argument, no input binding  *)
(* but the source fetch, and a script whose loop adds no flag and that     *)
(* runs papermill on the notebook under /mnt/repo and the fixed output     *)
(* path.                                                                   *)
(***************************************************************************)
C7_EmptyParameterSet ==
    (Synthesized /\ parameters = <<>>) =>
        /\ pc = "to_yaml" => raised = "none"
        /\ wt[1].arguments = <<>>
        /\ Len(wt[1].container.inputs) = 1
        /\ wt[1].container.inputs[1].kind = "GitArtifact"
        /\ papermill_args(wt[1].container.args) = <<>>
        /\ wt[1].container.args.papermill.runner = "papermill"
        /\ wt[1].container.args.papermill.input = <<"/mnt/repo/", NOTEBOOK_PATH>>
        /\ wt[1].container.args.papermill.output =
              "/mnt/outputs/output_notebook.ipynb"
        /\ wt[1].container.args.papermill.flags = "$papermill_args"

\* The template of a notebook without a parameters cell, registered.
C7_Witness ==
    /\ Synthesized
    /\ parameters = <<>>
    /\ TaggedCodeCells = {}
    /\ registered
    /\ pc = "done"

(***************************************************************************)
(* C8: the result comes from exactly one cell, the first code cell whose   *)
(* tags contain "parameters": a tagged cell that is not a code cell is     *)
(* skipped, and a later tagged code cell adds nothing, also when the       *)
(* first one yields no entry.                                              *)
(***************************************************************************)
C8_FirstTaggedCodeCellOnly ==
    Extracted =>
        parameters =
            IF TaggedCodeCells = {} THEN <<>>
            ELSE parse_cell(nb.cells[Min(TaggedCodeCells)])

\* A tagged markdown cell with an assignment, then a tagged code cell with
\* none, then a tagged code cell with one: the result is empty.
C8_Witness ==
    /\ Extracted
    /\ Len(nb.cells) = 3
    /\ \A i \in 1..3 : "parameters" \in nb.cells[i].tags
    /\ nb.cells[1].cell_type = "markdown"
    /\ nb.cells[1].source = <<"a", "=", "1">>
    /\ TaggedCodeCells = {2, 3}
    /\ nb.cells[2].source = <<"#", "c">>
    /\ nb.cells[3].source = <<"a", "=", "1">>
    /\ parameters = <<>>

(***************************************************************************)
(* C9: a line yields an entry iff, trimmed, it is not empty, does not      *)
(* begin with "#", holds a "=" and does not begin with "=".  The names of  *)
(* the result are the names of those lines and nothing else: every other   *)
(* line is skipped and leaves the entries of the others as they are.       *)
(***************************************************************************)
C9_EntryIffQualifying ==
    Extracted =>
        /\ {parameters[i].name : i \in 1..Len(parameters)} =
              {NameOf(ParamLine(n)) : n \in QualifyingLines}
        /\ Len(parameters) =
              Cardinality({NameOf(ParamLine(n)) : n \in QualifyingLines})
        /\ \A i \in 1..Len(parameters) :
              parameters[i].value =
                  RawDefaultOf(ParamLine(Max(LinesNaming(parameters[i].name))))

\* A line that begins with "=" and goes on, next to a qualifying line: one
\* entry, named by the qualifying line.
C9_Witness ==
    /\ Extracted
    /\ LineCount(ParamSource) = 2
    /\ \E m \in 1..2 :
          /\ startswith(Trimmed(ParamLine(m)), "=")
          /\ Len(Trimmed(ParamLine(m))) >= 2
    /\ Len(parameters) = 1
    /\ parameters[1].name # <<>>

(***************************************************************************)
(* C10: once the temporary directory exists, main ends only through the    *)
(* cleanup, so the directory is gone when main is over, however it ends    *)
(* (a registration failure ends with exit status 1); and the registration  *)
(* is attempted only after clone, notebook check, extraction and           *)
(* synthesis, in that order.                                               *)
(***************************************************************************)
C10_CleanupAndOrder ==
    /\ pc = "done" =>
          /\ ~temp_dir
          /\ log[Len(log)] = "finally"
          /\ (raised = "SystemExit" => exit_status = 1 /\ ~registered)
    /\ temp_dir => (log # <<>> /\ log[1] = "mkdtemp" /\ pc # "done")
    /\ (\E i \in 1..Len(log) : log[i] = "create") =>
          /\ Len(log) >= 7
          /\ [i \in 1..7 |-> log[i]] =
                <<"mkdtemp", "clone_repository", "exists",
                  "find_parameters_cell", "create_workflow_template",
                  "to_yaml", "create">>
          /\ Synthesized

\* main is over after a failed registration.
C10_Witness ==
    /\ pc = "done"
    /\ raised = "SystemExit"
    /\ ~temp_dir
    /\ Synthesized

====
